---- MODULE Spec2Model ----
(***************************************************************************)
(* Model of packages/gateway/data/example-skills/code-review/scripts/      *)
(* analyze.py: the entry point (argument check, usage exit) and            *)
(* analyze_file (scoped open/read, the line statistics, the report).       *)
(* Lines of text are sequences of one-character strings, so that strip,    *)
(* lstrip, startswith and the regular expression act on characters.        *)
(***************************************************************************)
EXTENDS Integers, Sequences, FiniteSets, TLC

\* ------------------------------------------------------------------ bounds
MaxLines == 2
MaxIndent == 1
MaxArgs == 2

\* ------------------------------------------------- Python string functions
\* str.isspace() for the characters in play; re's \s is the same class.
Whitespace == {" ", "\t", "\n", "\r", "\f"}

isspace(c) == c \in Whitespace

\* re's \w: letters, digits and the underscore.
WordChars ==
    {"a","b","c","d","e","f","g","h","i","j","k","l","m","n","o","p","q","r",
     "s","t","u","v","w","x","y","z","A","B","C","D","E","F","G","H","I","J",
     "K","L","M","N","O","P","Q","R","S","T","U","V","W","X","Y","Z",
     "0","1","2","3","4","5","6","7","8","9","_"}

isword(c) == c \in WordChars

RECURSIVE lstrip(_)
lstrip(s) ==
    IF s = <<>> THEN <<>>
    ELSE IF isspace(Head(s)) THEN lstrip(Tail(s)) ELSE s

RECURSIVE rstrip(_)
rstrip(s) ==
    IF s = <<>> THEN <<>>
    ELSE IF isspace(s[Len(s)]) THEN rstrip(SubSeq(s, 1, Len(s) - 1)) ELSE s

strip(s) == rstrip(lstrip(s))

startswith(s, p) == Len(s) >= Len(p) /\ SubSeq(s, 1, Len(p)) = p

\* sum(1 for l in lines if <flag of l>): a left-to-right sum of ones.
RECURSIVE sum_ones(_)
sum_ones(flags) ==
    IF flags = <<>> THEN 0
    ELSE (IF Head(flags) THEN 1 ELSE 0) + sum_ones(Tail(flags))

\* max() over a non-empty sequence of integers.
RECURSIVE max_of(_)
max_of(xs) ==
    IF Len(xs) = 1 THEN xs[1]
    ELSE LET m == max_of(Tail(xs)) IN IF Head(xs) >= m THEN Head(xs) ELSE m

\* [x for x in xs if keep], as a sequence.
RECURSIVE select_pairs(_)
select_pairs(ps) ==
    IF ps = <<>> THEN <<>>
    ELSE IF Head(ps)[1] THEN <<Head(ps)[2]>> \o select_pairs(Tail(ps))
         ELSE select_pairs(Tail(ps))

\* ------------------------------------------------------- line predicates
HASH == <<"#">>
SLASHES == <<"/", "/">>

\* is_code with the '//' test left out
is_code_no_slashes(l) ==
    /\ strip(l) # <<>>
    /\ ~startswith(strip(l), HASH)

\* l.strip() and not l.strip().startswith('#') and not ...startswith('//')
is_code(l) ==
    /\ strip(l) # <<>>
    /\ ~startswith(strip(l), HASH)
    /\ ~startswith(strip(l), SLASHES)

\* l.strip().startswith('#') or l.strip().startswith('//')
is_comment(l) == startswith(strip(l), HASH) \/ startswith(strip(l), SLASHES)

\* not l.strip()
is_blank(l) == strip(l) = <<>>

\* ------------------------------------------------------- the func_pattern
DEF_ == <<"d","e","f"," ">>
FUNCTION_ == <<"f","u","n","c","t","i","o","n"," ">>
ASYNC_ == <<"a","s","y","n","c"," ">>
CONST_ == <<"c","o","n","s","t"," ">>
EQ_ == <<" ","="," ">>
PAREN == <<"(">>

\* (?:async )?\(
async_opt_paren(s) == startswith(s, PAREN) \/ startswith(s, ASYNC_ \o PAREN)

\* const \w+ = (?:async )?\(   -- \w+ takes n >= 1 word characters
const_form(s) ==
    /\ startswith(s, CONST_)
    /\ \E n \in 1..(Len(s) - Len(CONST_)) :
          /\ \A i \in (Len(CONST_) + 1)..(Len(CONST_) + n) : isword(s[i])
          /\ LET r == SubSeq(s, Len(CONST_) + n + 1, Len(s)) IN
                /\ startswith(r, EQ_)
                /\ async_opt_paren(SubSeq(r, Len(EQ_) + 1, Len(r)))

\* (def |function |async function |const \w+ = (?:async )?\()
opener_group(s) ==
    \/ startswith(s, DEF_)
    \/ startswith(s, FUNCTION_)
    \/ startswith(s, ASYNC_ \o FUNCTION_)
    \/ const_form(s)

\* func_pattern.search(l) in place of match: the group may start anywhere
func_pattern_search(l) ==
    \E k \in 0..Len(l) : opener_group(SubSeq(l, k + 1, Len(l)))

\* ^\W* in place of ^\s*: any non-word characters may lead
func_pattern_nonword(l) ==
    \E k \in 0..Len(l) :
        /\ \A i \in 1..k : ~isword(l[i])
        /\ opener_group(SubSeq(l, k + 1, Len(l)))

\* func_pattern.match(l): ^\s* takes some k leading whitespace characters,
\* then the group has to match at position k.
func_pattern_match(l) ==
    \E k \in 0..Len(l) :
        /\ \A i \in 1..k : isspace(l[i])
        /\ opener_group(SubSeq(l, k + 1, Len(l)))

\* ------------------------------------------------------- the statistics
count_code(ls) == sum_ones([i \in 1..Len(ls) |-> is_code(ls[i])])
count_comment(ls) == sum_ones([i \in 1..Len(ls) |-> is_comment(ls[i])])
count_blank(ls) == sum_ones([i \in 1..Len(ls) |-> is_blank(ls[i])])
count_functions(ls) == sum_ones([i \in 1..Len(ls) |-> func_pattern_match(ls[i])])

\* len(l) - len(l.lstrip())
indent_of(l) == Len(l) - Len(lstrip(l))

\* the generator without its 'if l.strip()' filter
indent_candidates_unfiltered(ls) ==
    select_pairs([i \in 1..Len(ls) |-> <<TRUE, indent_of(ls[i])>>])

\* the generator of line 21: the indents of the lines with l.strip() truthy
indent_candidates(ls) ==
    select_pairs([i \in 1..Len(ls) |-> <<strip(ls[i]) # <<>>, indent_of(ls[i])>>])

\* max(...) raises ValueError on an empty generator
max_indent_raises(ls) == ls # <<>> /\ indent_candidates(ls) = <<>>

max_indent_value(ls) == IF ls # <<>> THEN max_of(indent_candidates(ls)) ELSE 0

\* ------------------------------------------------------------ formatting
max2(a, b) == IF a >= b THEN a ELSE b

\* the ratio with code_lines + 1 as the denominator in place of the floor
ratio_tenths_plus_one(comments, code) ==
    LET d == code + 1
        n == comments * 1000
        q == n \div d
        r == n % d
    IN  IF 2 * r > d THEN q + 1
        ELSE IF 2 * r < d THEN q
        ELSE IF q % 2 = 1 THEN q + 1 ELSE q

\* comment_lines/max(code_lines,1)*100 under ':.1f', in tenths of a percent:
\* the quotient rounded to the nearest tenth.  An exact tie needs a
\* denominator divisible by 16; the float formatting then rounds the binary
\* value, which for an exactly representable quotient is round-half-even.
ratio_tenths(comments, code) ==
    LET d == max2(code, 1)
        n == comments * 1000
        q == n \div d
        r == n % d
    IN  IF 2 * r > d THEN q + 1
        ELSE IF 2 * r < d THEN q
        ELSE IF q % 2 = 1 THEN q + 1 ELSE q

format_1f(tenths) == ToString(tenths \div 10) \o "." \o ToString(tenths % 10)

USAGE_without_suffix == "Usage: analyze <filepath>"

USAGE == "Usage: analyze.py <filepath>"

\* ---------------------------------------------------------------- inputs
SCRIPT == "analyze.py"
Paths == {"a.py"}

\* sys.argv: the script name followed by 0..MaxArgs arguments
ArgvChoices == UNION {{<<SCRIPT>> \o a : a \in [1..n -> Paths]} : n \in 0..MaxArgs}

NL == <<"\n">>

\* Lines as readlines() returns them for a text file.
\* A blank line and a definition at every indentation up to MaxIndent ...
Indents == UNION {[1..n -> {" "}] : n \in 0..MaxIndent}

IndentedLines == {ind \o b \o NL : ind \in Indents, b \in {<<>>, DEF_ \o <<"f">>}}

\* ... and one line of every other shape the statistics tell apart.
ShapeLines ==
    { <<"/"," ","x">> \o NL,
      HASH \o <<" ">> \o DEF_ \o <<"f">> \o NL,
      <<"\t">> \o SLASHES \o <<" ">> \o FUNCTION_ \o <<"f">> \o NL,
      FUNCTION_ \o <<"f">> \o NL,
      ASYNC_ \o FUNCTION_ \o <<"f">> \o NL,
      CONST_ \o <<"x">> \o EQ_ \o PAREN \o NL,
      <<"\t">> \o CONST_ \o <<"x","_","1">> \o EQ_ \o ASYNC_ \o PAREN \o NL,
      <<"l","e","t"," ","x">> \o EQ_ \o PAREN \o NL,
      <<"x"," ">> \o DEF_ \o <<"f">> \o NL,
      <<"D","e","f"," ","f">> \o NL }

TextLines == IndentedLines \cup ShapeLines

\* Only the last line of a file can come without its "\n".
UnterminatedLines == {<<" ","x">>}

FileContents ==
    UNION {[1..n -> TextLines] : n \in 0..MaxLines}
    \cup UNION {{p \o <<u>> : p \in [1..n -> TextLines], u \in UnterminatedLines} :
                   n \in 0..(MaxLines - 1)}

\* the file argv[1] names: missing, undecodable, or text
FileStates ==
    {[kind |-> "missing", content |-> <<>>],
     [kind |-> "undecodable", content |-> <<>>]}
    \cup {[kind |-> "text", content |-> c] : c \in FileContents}

\* ----------------------------------------------------------------- state
VARIABLES
    sys_argv,     \* sys.argv
    fs,           \* the file system entry behind the path
    pc,           \* position in the script
    handle,       \* "closed" or "open": the file object f
    open_calls,   \* number of open() calls made so far
    locals,       \* analyze_file's bound local names -> values
    stdout,       \* lines printed so far
    exc,          \* the uncaught exception, "none" if none
    exit_status   \* <<>> while running, <<n>> once the process has exited

vars == <<sys_argv, fs, pc, handle, open_calls, locals, stdout, exc, exit_status>>

NoLocals == [n \in {} |-> 0]

bind(name, value) == (name :> value) @@ locals

bound(name) == name \in DOMAIN locals

Init ==
    /\ sys_argv \in ArgvChoices
    /\ fs \in FileStates
    /\ pc = "main"
    /\ handle = "closed"
    /\ open_calls = 0
    /\ locals = NoLocals
    /\ stdout = <<>>
    /\ exc = "none"
    /\ exit_status = <<>>

print(s) == stdout' = Append(stdout, s)

\* ------------------------------------------------------------ entry point
\* if len(sys.argv) < 2: print("Usage: ...")
MainUsage ==
    /\ pc = "main"
    /\ Len(sys_argv) < 2
    /\ print(USAGE)
    /\ pc' = "sys_exit"
    /\ UNCHANGED <<sys_argv, fs, handle, open_calls, locals, exc, exit_status>>

\* sys.exit() without its argument: the status is 0
MainSysExit_status0 ==
    /\ pc = "sys_exit"
    /\ pc' = "exited"
    /\ exit_status' = <<0>>
    /\ UNCHANGED <<sys_argv, fs, handle, open_calls, locals, stdout, exc>>

\* sys.exit(1)
MainSysExit ==
    /\ pc = "sys_exit"
    /\ pc' = "exited"
    /\ exit_status' = <<1>>
    /\ UNCHANGED <<sys_argv, fs, handle, open_calls, locals, stdout, exc>>

\* analyze_file(sys.argv[1])
MainCallAnalyze ==
    /\ pc = "main"
    /\ ~(Len(sys_argv) < 2)
    /\ locals' = bind("filepath", sys_argv[2])
    /\ pc' = "open"
    /\ UNCHANGED <<sys_argv, fs, handle, open_calls, stdout, exc, exit_status>>

\* ------------------------------------------------------------ analyze_file
\* with open(filepath) as f:
Open ==
    /\ pc = "open"
    /\ fs.kind # "missing"
    /\ handle' = "open"
    /\ open_calls' = open_calls + 1
    /\ pc' = "readlines"
    /\ UNCHANGED <<sys_argv, fs, locals, stdout, exc, exit_status>>

\* open() raises and a handler prints the usage line before exiting
OpenRaise_handled ==
    /\ pc = "open"
    /\ fs.kind = "missing"
    /\ open_calls' = open_calls + 1
    /\ stdout' = Append(stdout, USAGE)
    /\ exit_status' = <<1>>
    /\ pc' = "exited"
    /\ UNCHANGED <<sys_argv, fs, handle, locals, exc>>

\* open() raises; nothing catches it, the interpreter exits with status 1
OpenRaise ==
    /\ pc = "open"
    /\ fs.kind = "missing"
    /\ open_calls' = open_calls + 1
    /\ exc' = "FileNotFoundError"
    /\ exit_status' = <<1>>
    /\ pc' = "exited"
    /\ UNCHANGED <<sys_argv, fs, handle, locals, stdout>>

\* lines = f.readlines()
ReadLines ==
    /\ pc = "readlines"
    /\ fs.kind = "text"
    /\ locals' = bind("lines", fs.content)
    /\ pc' = "with_exit"
    /\ UNCHANGED <<sys_argv, fs, handle, open_calls, stdout, exc, exit_status>>

\* f.readlines() raises inside the with block
ReadLinesRaise ==
    /\ pc = "readlines"
    /\ fs.kind = "undecodable"
    /\ exc' = "UnicodeDecodeError"
    /\ pc' = "with_exit"
    /\ UNCHANGED <<sys_argv, fs, handle, open_calls, locals, stdout, exit_status>>

\* f = open(...) without the with block: nothing closes f
WithExit_no_close ==
    /\ pc = "with_exit"
    /\ IF exc = "none"
          THEN pc' = "total_lines" /\ UNCHANGED exit_status
          ELSE pc' = "exited" /\ exit_status' = <<1>>
    /\ UNCHANGED <<sys_argv, fs, handle, open_calls, locals, stdout, exc>>

\* leaving the with block closes f; a pending exception goes on propagating
WithExit ==
    /\ pc = "with_exit"
    /\ handle' = "closed"
    /\ IF exc = "none"
          THEN pc' = "total_lines" /\ UNCHANGED exit_status
          ELSE pc' = "exited" /\ exit_status' = <<1>>
    /\ UNCHANGED <<sys_argv, fs, open_calls, locals, stdout, exc>>

Assign(at, name, value, next) ==
    /\ pc = at
    /\ locals' = bind(name, value)
    /\ pc' = next
    /\ UNCHANGED <<sys_argv, fs, handle, open_calls, stdout, exc, exit_status>>

AssignTotalLines == Assign("total_lines", "total_lines", Len(locals.lines), "code_lines")

AssignCodeLines == Assign("code_lines", "code_lines", count_code(locals.lines), "comment_lines")

AssignCommentLines ==
    Assign("comment_lines", "comment_lines", count_comment(locals.lines), "blank_lines")

AssignBlankLines == Assign("blank_lines", "blank_lines", count_blank(locals.lines), "functions")

AssignFunctions == Assign("functions", "functions", count_functions(locals.lines), "max_indent")

AssignMaxIndent ==
    /\ pc = "max_indent"
    /\ ~max_indent_raises(locals.lines)
    /\ Assign("max_indent", "max_indent", max_indent_value(locals.lines), "print1")

\* max() of an empty generator: ValueError, uncaught
MaxIndentRaise ==
    /\ pc = "max_indent"
    /\ max_indent_raises(locals.lines)
    /\ exc' = "ValueError"
    /\ exit_status' = <<1>>
    /\ pc' = "exited"
    /\ UNCHANGED <<sys_argv, fs, handle, open_calls, locals, stdout>>

PrintLine(at, s, next) ==
    /\ pc = at
    /\ print(s)
    /\ pc' = next
    /\ UNCHANGED <<sys_argv, fs, handle, open_calls, locals, exc, exit_status>>

line_file == "File: " \o locals.filepath
line_total == "Total lines: " \o ToString(locals.total_lines)
line_code == "Code lines: " \o ToString(locals.code_lines)
line_comment == "Comment lines: " \o ToString(locals.comment_lines)
line_blank == "Blank lines: " \o ToString(locals.blank_lines)
line_functions == "Functions: " \o ToString(locals.functions)
line_indent == "Max indentation: " \o ToString(locals.max_indent) \o " spaces"
line_ratio ==
    "Comment ratio: "
        \o format_1f(ratio_tenths(locals.comment_lines, locals.code_lines)) \o "%"

PrintFile == PrintLine("print1", line_file, "print2")
PrintTotal == PrintLine("print2", line_total, "print3")
PrintCode == PrintLine("print3", line_code, "print4")
PrintComment == PrintLine("print4", line_comment, "print5")
PrintBlank == PrintLine("print5", line_blank, "print6")
PrintFunctions == PrintLine("print6", line_functions, "print7")
PrintIndent == PrintLine("print7", line_indent, "print8")
PrintRatio == PrintLine("print8", line_ratio, "return")

\* analyze_file returns, the script ends: exit status 0
Return ==
    /\ pc = "return"
    /\ pc' = "exited"
    /\ exit_status' = <<0>>
    /\ UNCHANGED <<sys_argv, fs, handle, open_calls, locals, stdout, exc>>

Next ==
    \/ MainUsage
    \/ MainSysExit
    \/ MainCallAnalyze
    \/ Open
    \/ OpenRaise
    \/ ReadLines
    \/ ReadLinesRaise
    \/ WithExit
    \/ AssignTotalLines
    \/ AssignCodeLines
    \/ AssignCommentLines
    \/ AssignBlankLines
    \/ AssignFunctions
    \/ AssignMaxIndent
    \/ MaxIndentRaise
    \/ PrintFile
    \/ PrintTotal
    \/ PrintCode
    \/ PrintComment
    \/ PrintBlank
    \/ PrintFunctions
    \/ PrintIndent
    \/ PrintRatio
    \/ Return

Spec == Init /\ [][Next]_vars

TypeOK ==
    /\ sys_argv \in ArgvChoices
    /\ fs \in FileStates
    /\ handle \in {"closed", "open"}
    /\ open_calls \in 0..1
    /\ exc \in {"none", "FileNotFoundError", "UnicodeDecodeError", "ValueError"}
    /\ exit_status \in {<<>>, <<0>>, <<1>>}
    /\ Len(stdout) <= 8

\* ================================================================ properties
\* Vocabulary of the properties, defined on characters directly and not
\* through the operators above.

analysed == Len(sys_argv) >= 2

NonSpace(l) == {i \in 1..Len(l) : ~isspace(l[i])}

SetMin(S) == CHOOSE m \in S : \A x \in S : m <= x
SetMax(S) == CHOOSE m \in S : \A x \in S : m >= x

\* the stripped content: from the first to the last non-whitespace character
Stripped(l) ==
    IF NonSpace(l) = {} THEN <<>>
    ELSE SubSeq(l, SetMin(NonSpace(l)), SetMax(NonSpace(l)))

\* the line without its leading whitespace
LeftStripped(l) ==
    IF NonSpace(l) = {} THEN <<>> ELSE SubSeq(l, SetMin(NonSpace(l)), Len(l))

\* the number of leading whitespace characters
LeadingWs(l) == IF NonSpace(l) = {} THEN Len(l) ELSE SetMin(NonSpace(l)) - 1

LineClass(l) ==
    LET s == Stripped(l) IN
    IF s = <<>> THEN "blank"
    ELSE IF s[1] = "#" \/ (Len(s) >= 2 /\ s[1] = "/" /\ s[2] = "/") THEN "comment"
    ELSE "code"

InClass(ls, c) == {i \in 1..Len(ls) : LineClass(ls[i]) = c}

HasPrefix(s, p) == Len(s) >= Len(p) /\ \A i \in 1..Len(p) : s[i] = p[i]

\* 'const <identifier> = (' or 'const <identifier> = async ('
ConstOpener(s) ==
    /\ HasPrefix(s, <<"c","o","n","s","t"," ">>)
    /\ \E n \in 1..(Len(s) - 6) :
          /\ \A i \in 7..(6 + n) : s[i] \in WordChars
          /\ \/ HasPrefix(SubSeq(s, 7 + n, Len(s)), <<" ","="," ","(">>)
             \/ HasPrefix(SubSeq(s, 7 + n, Len(s)),
                          <<" ","="," ","a","s","y","n","c"," ","(">>)

IsOpenerLine(l) ==
    LET s == LeftStripped(l) IN
    \/ HasPrefix(s, <<"d","e","f"," ">>)
    \/ HasPrefix(s, <<"f","u","n","c","t","i","o","n"," ">>)
    \/ HasPrefix(s, <<"a","s","y","n","c"," ","f","u","n","c","t","i","o","n"," ">>)
    \/ ConstOpener(s)

\* lines the function count has to leave out: let/var assignments, another
\* letter case, an opener that only appears after other text
IsContrastLine(l) ==
    LET s == LeftStripped(l) IN
    \/ HasPrefix(s, <<"l","e","t"," ">>)
    \/ HasPrefix(s, <<"v","a","r"," ">>)
    \/ HasPrefix(s, <<"D","e","f"," ">>)
    \/ HasPrefix(s, <<"x"," ","d","e","f"," ">>)

\* the eight report lines in their order
ReportLine(k) ==
    CASE k = 1 -> line_file
      [] k = 2 -> line_total
      [] k = 3 -> line_code
      [] k = 4 -> line_comment
      [] k = 5 -> line_blank
      [] k = 6 -> line_functions
      [] k = 7 -> line_indent
      [] k = 8 -> line_ratio

\* C1: once the four counts are computed, code_lines, comment_lines and
\* blank_lines are the numbers of lines in the classes code, comment and
\* blank (each line is in exactly one), and they add up to total_lines,
\* the number of lines read.
C1_CountsPartition ==
    bound("blank_lines") =>
        /\ locals.total_lines = Len(locals.lines)
        /\ locals.code_lines = Cardinality(InClass(locals.lines, "code"))
        /\ locals.comment_lines = Cardinality(InClass(locals.lines, "comment"))
        /\ locals.blank_lines = Cardinality(InClass(locals.lines, "blank"))
        /\ locals.code_lines + locals.comment_lines + locals.blank_lines
               = locals.total_lines

C1_Witness ==
    /\ pc = "exited"
    /\ exit_status = <<0>>
    /\ locals.total_lines = 2
    /\ locals.code_lines = 1
    /\ locals.comment_lines = 1

\* C2: a run on a text file with no non-blank line (no line at all, or
\* blank lines only) ends with status 0 after printing the eight report
\* lines, and its max indentation is 0.
C2_BlankFileReportsZero ==
    ( /\ pc = "exited"
      /\ analysed
      /\ fs.kind = "text"
      /\ InClass(fs.content, "blank") = 1..Len(fs.content) )
    => /\ exit_status = <<0>>
       /\ exc = "none"
       /\ Len(stdout) = 8
       /\ bound("max_indent")
       /\ locals.max_indent = 0
       /\ stdout[7] = "Max indentation: 0 spaces"

C4_MissingFile ==
    (Len(sys_argv) = 2 /\ fs.kind = "missing") =>
        /\ stdout = <<>>
        /\ handle = "closed"
        /\ pc \in {"main", "open", "exited"}
        /\ pc = "exited" =>
              /\ exc = "FileNotFoundError"
              /\ exit_status # <<>>
              /\ exit_status # <<0>>

C4_Witness ==
    /\ pc = "exited"
    /\ Len(sys_argv) = 2
    /\ fs.kind = "missing"
    /\ open_calls = 1
    /\ exc = "FileNotFoundError"

\* C5: the eighth report line shows comment_lines * 100 / max(code_lines, 1)
\* to the nearest tenth: N * 100 and one zero decimal for N comment lines
\* and no code line, 0.0 for no comment line.
C5_RatioFloor ==
    Len(stdout) = 8 =>
        LET c == locals.comment_lines
            k == locals.code_lines
            d == IF k = 0 THEN 1 ELSE k
            lo == (c * 1000) \div d
            shown(q) == "Comment ratio: " \o ToString(q \div 10) \o "."
                            \o ToString(q % 10) \o "%"
        IN  /\ \E q \in {lo, lo + 1} :
                  /\ 2 * (q * d - c * 1000) <= d
                  /\ 2 * (c * 1000 - q * d) <= d
                  /\ stdout[8] = shown(q)
            /\ k = 0 => stdout[8] = "Comment ratio: " \o ToString(c * 100) \o ".0%"
            /\ c = 0 => stdout[8] = "Comment ratio: 0.0%"

C5_Witness ==
    /\ Len(stdout) = 8
    /\ locals.code_lines = 0
    /\ locals.comment_lines = 2
    /\ stdout[8] = "Comment ratio: 200.0%"

\* C6: the function count is the number of lines that, after their leading
\* whitespace, begin with 'def ', 'function ', 'async function ',
\* 'const <identifier> = (' or 'const <identifier> = async ('; a file made of
\* let/var assignments, other letter case or mid-line openers counts none.
C6_FunctionCount ==
    bound("functions") =>
        /\ locals.functions
               = Cardinality({i \in 1..Len(locals.lines) : IsOpenerLine(locals.lines[i])})
        /\ (\A i \in 1..Len(locals.lines) : IsContrastLine(locals.lines[i]))
               => locals.functions = 0

C6_Witness ==
    /\ bound("functions")
    /\ locals.functions = 1
    /\ Len(locals.lines) = 2
    /\ \E i \in 1..2 : HasPrefix(locals.lines[i],
                           <<"\t","c","o","n","s","t"," ","x","_","1"," ","="," ","a","s","y","n","c"," ","(">>)
    /\ \E i \in 1..2 : HasPrefix(locals.lines[i], <<"x"," ","d","e","f"," ">>)

\* C7: when the file has a non-blank line, max_indent (and the seventh
\* report line) is the largest number of leading whitespace characters
\* among the non-blank lines; blank lines do not count, however long.
C7_MaxIndent ==
    (bound("max_indent") /\ InClass(locals.lines, "blank") # 1..Len(locals.lines)) =>
        LET nonblank == (1..Len(locals.lines)) \ InClass(locals.lines, "blank")
            m == SetMax({LeadingWs(locals.lines[i]) : i \in nonblank})
        IN  /\ locals.max_indent = m
            /\ Len(stdout) >= 7 => stdout[7] = "Max indentation: " \o ToString(m) \o " spaces"

C7_Witness ==
    /\ Len(stdout) >= 7
    /\ locals.max_indent = 1
    /\ \E i \in InClass(locals.lines, "blank") : LeadingWs(locals.lines[i]) > 1
    /\ \E i \in 1..Len(locals.lines) : HasPrefix(locals.lines[i], <<" ","d","e","f"," ">>)

\* C8, as stated: on a usage error the output before the exit with
\* status 1 is the line 'Usage: analyze <filepath>'.
C8_Original ==
    (Len(sys_argv) < 2 /\ pc \in {"sys_exit", "exited"})
        => stdout = <<"Usage: analyze <filepath>">>

\* C8, amended: on a usage error the output before the exit with status 1
\* is the line 'Usage: analyze.py <filepath>'.
C8_UsageLiteral ==
    (Len(sys_argv) < 2 /\ pc \in {"sys_exit", "exited"}) =>
        /\ stdout = <<"Usage: analyze.py <filepath>">>
        /\ pc = "exited" => exit_status = <<1>>

C8_Witness ==
    /\ pc = "sys_exit"
    /\ exit_status = <<>>
    /\ stdout = <<"Usage: analyze.py <filepath>">>

\* C9: open() is called at most once; while the handle is open nothing has
\* been printed and no statistic is computed; the handle is closed when the
\* run has ended, whatever the way; what analyze_file has printed is
\* always a prefix of the eight report lines in their order, and while
\* that prefix is not empty and not complete the run has not ended and its
\* next step prints one more line.
C9_HandleScopeAndReport ==
    /\ open_calls <= 1
    /\ handle = "open" => (stdout = <<>> /\ DOMAIN locals \subseteq {"filepath", "lines"})
    /\ pc = "exited" => handle = "closed"
    /\ analysed => (Len(stdout) <= 8 /\ \A k \in 1..Len(stdout) : stdout[k] = ReportLine(k))
    /\ (analysed /\ Len(stdout) \in 1..7) =>
           /\ pc # "exited"
           /\ ENABLED (Next /\ Len(stdout') = Len(stdout) + 1)

C9_Witness ==
    /\ pc = "exited"
    /\ exit_status = <<0>>
    /\ open_calls = 1
    /\ handle = "closed"
    /\ Len(stdout) = 8
    /\ Len(locals.lines) = 2

\* C10: the function count never exceeds code_lines: each line counted as
\* a function is a code line, and a file of comment lines only, commented
\* definitions included, has comment_lines = total_lines and no function.
C10_FunctionsAreCode ==
    bound("functions") =>
        /\ locals.functions <= locals.code_lines
        /\ \A i \in 1..Len(locals.lines) :
              func_pattern_match(locals.lines[i]) => LineClass(locals.lines[i]) = "code"
        /\ InClass(locals.lines, "comment") = 1..Len(locals.lines)
              => (locals.functions = 0 /\ locals.comment_lines = locals.total_lines)

C10_Witness ==
    /\ bound("functions")
    /\ locals.functions = 1
    /\ locals.comment_lines = 1
    /\ \E i \in 1..Len(locals.lines) :
           HasPrefix(LeftStripped(locals.lines[i]), <<"#"," ","d","e","f"," ">>)
    /\ \E i \in 1..Len(locals.lines) :
           HasPrefix(LeftStripped(locals.lines[i]), <<"f","u","n","c","t","i","o","n"," ">>)
====
